---- MODULE Spec2Model ----
(***************************************************************************)
(* Model of python-yr: the lookup-archive cache and location resolver of   *)
(* yr/location_to_coordinates.py and the forecast cache and fetcher of     *)
(* yr/utils.py.                                                            *)
(*                                                                         *)
(* Text is modelled as a sequence of one-character strings, so that        *)
(* lower(), replace(), split(), endswith() and the coordinate regular      *)
(* expression are computed character by character as the code does.       *)
(***************************************************************************)
EXTENDS Integers, Sequences, FiniteSets, TLC

VARIABLES
    now,        \* wall clock, seconds since the epoch (time.time())
    zipfile,    \* the file at cache_filename: [exists, complete, content, mtime]
    shelf,      \* the shelve at shelve_filename: cache_key -> stored value
    call,       \* the last completed resolver call: what it was given and what it did
    tz,         \* the system's local time zone
    cachefiles, \* the forecast cache files: filename -> [exists, shape, nextrun, eol]
    fcall,      \* the last completed Connect.read: what it was given and what it did
    procs,      \* concurrent processes inside a call: process -> its position and locals
    disk,       \* the one forecast cache file concurrent readers share: [exists, blocks]
    locations   \* the location objects constructed, each with its constructor's arguments

vars == <<now, zipfile, shelf, call, tz, cachefiles, fcall, procs, disk, locations>>

(***************************************************************************)
(* Bounds of the model.                                                    *)
(***************************************************************************)
\* how many times the clock is advanced in one behaviour of the resolver
MaxAdvances == 2
\* how many times the clock is advanced in one behaviour of the forecast cache
MaxTicks == 2
\* how many calls each of the concurrent processes makes
MaxCalls == 2
\* how many location objects are constructed in one behaviour
MaxObjects == 2

(***************************************************************************)
(* Text helpers.                                                           *)
(***************************************************************************)
Digits == {"0", "1", "2", "3", "4", "5", "6", "7", "8", "9"}

DigitVal(c) ==
    CASE c = "0" -> 0 [] c = "1" -> 1 [] c = "2" -> 2 [] c = "3" -> 3
      [] c = "4" -> 4 [] c = "5" -> 5 [] c = "6" -> 6 [] c = "7" -> 7
      [] c = "8" -> 8 [] c = "9" -> 9

\* str.lower() on one character of the model's alphabet
LowerChar(c) ==
    CASE c = "N" -> "n" [] c = "S" -> "s" [] c = "K" -> "k" [] c = "X" -> "x"
      [] c = "Z" -> "z" [] c = "Q" -> "q" [] OTHER -> c

\* location_name.lower()
Lower(s) == [i \in 1..Len(s) |-> LowerChar(s[i])]

\* location_name.replace(" ", "_")
ReplaceSpaces(s) == [i \in 1..Len(s) |-> IF s[i] = " " THEN "_" ELSE s[i]]

\* location_name.split('/')[0]
SplitFirst(s) ==
    IF \E i \in 1..Len(s) : s[i] = "/"
    THEN SubSeq(s, 1, (CHOOSE i \in 1..Len(s) :
                          s[i] = "/" /\ \A j \in 1..(i-1) : s[j] # "/") - 1)
    ELSE s

\* name.endswith(suffix)
EndsWith(s, suffix) ==
    /\ Len(suffix) <= Len(s)
    /\ SubSeq(s, Len(s) - Len(suffix) + 1, Len(s)) = suffix

DotCsv == <<".", "c", "s", "v">>

(***************************************************************************)
(* float(): Python's conversion of a decimal literal.  The value is kept   *)
(* exactly, as sign, mantissa and number of fraction digits, trailing      *)
(* fraction zeros removed (float("2.0") = float("2")).                     *)
(***************************************************************************)
RECURSIVE DigitsToNat(_)
DigitsToNat(s) ==
    IF s = <<>> THEN 0
    ELSE 10 * DigitsToNat(SubSeq(s, 1, Len(s) - 1)) + DigitVal(s[Len(s)])

RECURSIVE StripZeros(_, _)
StripZeros(mant, exp) ==
    IF exp > 0 /\ mant % 10 = 0 THEN StripZeros(mant \div 10, exp - 1)
    ELSE [mant |-> mant, exp |-> exp]

\* float() raised
ValueError == [error |-> "ValueError"]

PyFloat(s) ==
    LET signed == Len(s) > 0 /\ s[1] \in {"-", "+"}
        body   == IF signed THEN Tail(s) ELSE s
        dots   == {i \in 1..Len(body) : body[i] = "."}
        digs   == SelectSeq(body, LAMBDA c : c \in Digits)
        ok     == /\ \A i \in 1..Len(body) : body[i] \in Digits \cup {"."}
                  /\ Cardinality(dots) <= 1
                  /\ Len(digs) >= 1
        frac   == IF dots = {} THEN 0 ELSE Len(body) - (CHOOSE i \in dots : TRUE)
        n      == StripZeros(DigitsToNat(digs), frac)
    IN  IF ~ok THEN ValueError
        ELSE [neg  |-> signed /\ s[1] = "-" /\ n.mant # 0,
              mant |-> n.mant, exp |-> n.exp]

\* a Python int
PyInt(n) == [int |-> n]

DigitChars == <<"0", "1", "2", "3", "4", "5", "6", "7", "8", "9">>

RECURSIVE NatToDigits(_)
NatToDigits(n) ==
    IF n < 10 THEN <<DigitChars[n + 1]>>
    ELSE NatToDigits(n \div 10) \o <<DigitChars[(n % 10) + 1]>>

\* zeros put in front until the digits are at least n long
RECURSIVE PadLeft(_, _)
PadLeft(digits, n) == IF Len(digits) >= n THEN digits ELSE PadLeft(<<"0">> \o digits, n)

\* '{}'.format(v): str() of an int, and of a float the shortest decimal that
\* reads back as it, with at least one fraction digit (50.0 gives '50.0')
FormatNumber(v) ==
    IF "int" \in DOMAIN v THEN NatToDigits(v.int)
    ELSE LET digits == PadLeft(NatToDigits(v.mant), v.exp + 1)
             whole  == SubSeq(digits, 1, Len(digits) - v.exp)
             frac   == SubSeq(digits, Len(digits) - v.exp + 1, Len(digits))
         IN  (IF v.neg THEN <<"-">> ELSE <<>>) \o whole \o <<".">> \o
             (IF v.exp = 0 THEN <<"0">> ELSE frac)

(***************************************************************************)
(* The coordinate pattern of parse_location_csv,                           *)
(*     lat=([\d.]+)&lon=([\d.]+)&altitude=([\d.]+)                         *)
(* applied with re.match: anchored at the start, not at the end.  Each     *)
(* group is greedy and the character after a group is outside its class,   *)
(* so the match is the maximal run of class characters.                    *)
(***************************************************************************)
LatEq == <<"l", "a", "t", "=">>
LonEq == <<"&", "l", "o", "n", "=">>
AltEq == <<"&", "a", "l", "t", "i", "t", "u", "d", "e", "=">>

\* the class [\d.]
NumClass == Digits \cup {"."}

\* position after literal lit when s holds it at position i, else 0
MatchLit(s, i, lit) ==
    IF i > 0 /\ i + Len(lit) - 1 <= Len(s) /\ SubSeq(s, i, i + Len(lit) - 1) = lit
    THEN i + Len(lit) ELSE 0

\* position after the maximal run of class characters from i (i itself: no run)
RunEnd(s, i, class) ==
    IF i = 0 THEN 0
    ELSE LET stops == {j \in i..Len(s) : s[j] \notin class}
         IN  IF stops = {} THEN Len(s) + 1
             ELSE CHOOSE j \in stops : \A k \in stops : j <= k

\* a group ([class]+) from i: its end, 0 when the group is empty
MatchGroup(s, i, class) ==
    LET e == RunEnd(s, i, class) IN IF i = 0 \/ e = i THEN 0 ELSE e

\* re.match returned None
NoMatch == <<>>

\* re.match(pattern, s) with the character class given: the three groups, or NoMatch
MatchWith(s, class) ==
    LET a1 == MatchLit(s, 1, LatEq)
        e1 == MatchGroup(s, a1, class)
        a2 == MatchLit(s, e1, LonEq)
        e2 == MatchGroup(s, a2, class)
        a3 == MatchLit(s, e2, AltEq)
        e3 == MatchGroup(s, a3, class)
    IN  IF e3 = 0 THEN NoMatch
        ELSE <<SubSeq(s, a1, e1 - 1), SubSeq(s, a2, e2 - 1), SubSeq(s, a3, e3 - 1)>>

ReMatch(s) == MatchWith(s, NumClass)

(***************************************************************************)
(* The provider's lookup archives: a zip of tab-separated tables, one per  *)
(* country, each row <<place name, coordinate descriptor>>.                *)
(***************************************************************************)
Descriptor(lat, lon, alt) == LatEq \o lat \o LonEq \o lon \o AltEq \o alt

\* decimal numbers <f> the provider's tables hold
F_5_2     == <<"5", ".", "2">>
F_14      == <<"1", "4">>
F_2_0     == <<"2", ".", "0">>
F_neg_5_2 == <<"-", "5", ".", "2">>
Decimals  == {F_5_2, F_14, F_2_0, F_neg_5_2}

\* location names callers pass
Name_N_S_k  == <<"N", "/", "S", " ", "k">>
Name_n_s_k  == <<"n", "/", "s", "_", "k">>
Name_n_x    == <<"n", "/", "x">>
Name_n_q    == <<"n", "/", "q">>
Name_z_q    == <<"Z", "/", "q">>
LocationNames == {Name_N_S_k, Name_n_s_k, Name_n_x, Name_n_q, Name_z_q}

Table_n  == <<"n">> \o DotCsv
Table_xn == <<"x", "n">> \o DotCsv

\* the archive as first published: one table; the place n/x lies south of the
\* equator, the place n/q is not listed
ArchiveV1 ==
    << [name |-> Table_n,
        rows |-> << <<Name_n_s_k, Descriptor(F_5_2, F_14, F_2_0)>>,
                    <<Name_n_x,   Descriptor(F_neg_5_2, F_14, F_2_0)>> >>] >>

\* a later edition: n/s_k moved, n/x has a malformed first row, and a second
\* table whose name also ends with n.csv lists n/x and n/q again
ArchiveV2 ==
    << [name |-> Table_n,
        rows |-> << <<Name_n_s_k, Descriptor(F_14, F_5_2, F_2_0)>>,
                    <<Name_n_x,   LatEq \o F_5_2>>,
                    <<Name_n_x,   Descriptor(F_5_2, F_14, F_2_0)>>,
                    <<Name_n_q,   Descriptor(F_2_0, F_14, F_5_2)>> >>],
       [name |-> Table_xn,
        rows |-> << <<Name_n_x,   Descriptor(F_5_2, F_14, F_2_0)>>,
                    <<Name_n_q,   Descriptor(F_2_0, F_14, F_5_2)>> >>] >>

\* the response bodies the provider serves for the archive url, and the tables
\* zipfile.ZipFile finds in each
Archives == {"v1", "v2"}
ZipTables(body) == IF body = "v1" THEN ArchiveV1 ELSE ArchiveV2


ZipUrl   == "https://www.yr.no/storage/lookup/English.csv.zip"
ZipCache == "/tmp/English.csv.zip"

(***************************************************************************)
(* get_zip_cached                                                          *)
(***************************************************************************)
SecondsPerDay == 60 * 60 * 24
OldAgeDays    == 30

\* a file: whether it exists, whether it holds a whole response body (a write
\* that stopped half way leaves it incomplete), the archive it holds, its mtime
NoFile == [exists |-> FALSE, complete |-> FALSE, content |-> "", mtime |-> 0]
FileOf(body, t) == [exists |-> TRUE, complete |-> TRUE, content |-> body, mtime |-> t]
PartialFile(t)  == [exists |-> TRUE, complete |-> FALSE, content |-> "", mtime |-> t]

\* file_age(filename) < days; the age is (now - mtime) / SecondsPerDay days
FileAgeBelow(file, t, days) == (t - file.mtime) < days * SecondsPerDay

\* (mutant) the age test the wrong way round: age > old_age_days
ZipCacheHit_Inverted(file, t) == file.exists /\ ~FileAgeBelow(file, t, OldAgeDays)

\* the cache hit of get_zip_cached: the file exists and is young enough
ZipCacheHit(file, t) == file.exists /\ FileAgeBelow(file, t, OldAgeDays)

\* HTTP responses: a status and a body; status 0 stands for urlopen raising
\* (URLError, or HTTPError for a 4xx/5xx answer)
\* an answer other than 200 carries no body the code reads
Responses(bodies, nobody) ==
    {[status |-> 0, body |-> nobody], [status |-> 204, body |-> nobody]} \cup
    [status : {200}, body : bodies]
UrlopenRaised(resp) == resp.status = 0

\* faults of the file system while the archive is written
NoFault     == [write |-> "none", removeFails |-> FALSE]
WriteFaults == {NoFault} \cup [write : {"open", "write"}, removeFails : BOOLEAN]

\* what one call meets: the response to its GET and the fault of its write
Environments(bodies) ==
    {e \in [resp : Responses(bodies, ""), fault : WriteFaults] :
        e.resp.status # 200 => e.fault = NoFault}

\* a call that makes no request meets nothing
NoEnvironment == [resp |-> [status |-> 0, body |-> ""], fault |-> NoFault]

\* what a call can meet, by whether it makes its request
EnvironmentsIf(requests, bodies) ==
    IF requests THEN Environments(bodies) ELSE {NoEnvironment}

\* (mutant) the written file keeps the modification time of the file it replaces
ZipWrite_KeepMtime(file, t, body, fault) ==
    CASE fault.write = "none" -> FileOf(body, IF file.exists THEN file.mtime ELSE t)
      [] fault.write = "open" -> IF fault.removeFails \/ ~file.exists THEN file ELSE NoFile
      [] fault.write = "write" ->
            IF fault.removeFails THEN PartialFile(t)
            ELSE NoFile

\* the try/except around the write: the file the call leaves behind
ZipWrite(file, t, body, fault) ==
    CASE fault.write = "none" -> FileOf(body, t)
      [] fault.write = "open" -> IF fault.removeFails \/ ~file.exists THEN file ELSE NoFile
      [] fault.write = "write" ->
            IF fault.removeFails THEN PartialFile(t)
            ELSE NoFile

\* what get_zip_cached does after the write was attempted: whether the
\* failure of the write reaches the caller
ZipWriteOutcome(fault) == "return"

GetZipCached(file, t, resp, fault) ==
    IF ZipCacheHit(file, t)
    THEN [file |-> file, outcome |-> "return", error |-> "", gets |-> 0, writes |-> 0]
    ELSE IF UrlopenRaised(resp)
    THEN [file |-> file, outcome |-> "raise", error |-> "URLError", gets |-> 1, writes |-> 0]
    ELSE IF resp.status # 200
    THEN [file |-> file, outcome |-> "raise", error |-> "APIError: status", gets |-> 1, writes |-> 0]
    ELSE [file    |-> ZipWrite(file, t, resp.body, fault),
          outcome |-> ZipWriteOutcome(fault),
          error   |-> IF ZipWriteOutcome(fault) = "raise" THEN "OSError" ELSE "",
          gets    |-> 1,
          writes  |-> 1]

(***************************************************************************)
(* parse_location_csv                                                      *)
(***************************************************************************)
\* the outcome of a function: a returned value, or a raised exception
Return(v) == [outcome |-> "return", value |-> v]
Raise(e)  == [outcome |-> "raise",  value |-> [error |-> e]]
None      == [none |-> TRUE]

\* the index of the first row whose column 0 is location_name, 0 if none
FirstMatch(rows, location_name) ==
    LET hits == {i \in 1..Len(rows) : rows[i][1] = location_name}
    IN  IF hits = {} THEN 0 ELSE CHOOSE i \in hits : \A j \in hits : i <= j

\* the dict built from the three groups of the match
CoordinateOf(groups) ==
    [lat |-> PyFloat(groups[1]), lon |-> PyFloat(groups[2]), altitude |-> PyFloat(groups[3])]

\* (mutant) a row that fails the pattern counts as no match in its table
MatchResult_SkipMalformed(reg) ==
    IF reg = NoMatch THEN Return(None)
    ELSE IF \E k \in 1..3 : PyFloat(reg[k]) = ValueError THEN Raise("ValueError")
    ELSE Return(CoordinateOf(reg))

\* lines 91-102: the match object turned into the result dict, or the raise
MatchResult(reg) ==
    IF reg = NoMatch THEN Raise("APIError: malformed coordinate")
    ELSE IF \E k \in 1..3 : PyFloat(reg[k]) = ValueError THEN Raise("ValueError")
    ELSE Return(CoordinateOf(reg))

\* lines 84-89: the for loop ended by break at row i, or ran out (i = 0)
RowResult(rows, i) ==
    IF i = 0 THEN Return(None) ELSE MatchResult(ReMatch(rows[i][2]))

ParseLocationCsv(rows, location_name) == RowResult(rows, FirstMatch(rows, location_name))

(***************************************************************************)
(* parse_zip_cached, the function the shelve wrapper wraps                 *)
(***************************************************************************)
\* (mutant) the lower() left out
Normalize_NoLower(location_name) == ReplaceSpaces(location_name)

\* location_name.lower().replace(" ", "_")
Normalize(location_name) == ReplaceSpaces(Lower(location_name))

\* the tables of the archive whose name ends with <country>.csv, in namelist order
CandidateTables(archive, location_name) ==
    SelectSeq(archive, LAMBDA t : EndsWith(t.name, SplitFirst(location_name) \o DotCsv))

\* results.append(res) unless res is None; a raise in any scan ends the call
Collect(res, rest) ==
    IF res.outcome = "raise" THEN res
    ELSE IF rest.outcome = "raise" THEN rest
    ELSE IF res.value = None THEN rest
    ELSE Return(<<res.value>> \o rest.value)

\* the results list: what parse_location_csv gave for each candidate, in order
RECURSIVE ScanTables(_, _)
ScanTables(tables, location_name) ==
    IF tables = <<>> THEN Return(<<>>)
    ELSE Collect(ParseLocationCsv(tables[1].rows, location_name),
                 ScanTables(Tail(tables), location_name))

\* (mutant) several results: the first is returned
PickResult_FirstWins(results) ==
    IF results.outcome = "raise" THEN results
    ELSE IF Len(results.value) = 0 THEN Raise("APIError: not found")
    ELSE Return(results.value[1])

\* lines 173-181: the call's result from the results list
PickResult(results) ==
    IF results.outcome = "raise" THEN results
    ELSE IF Len(results.value) = 0 THEN Raise("APIError: not found")
    ELSE IF Len(results.value) > 1 THEN Raise("APIError: multiple matches")
    ELSE Return(results.value[1])

\* lines 155-171: the candidate tables scanned, none being an error
ScanMatches(matches, location_name) ==
    IF Len(matches) = 0 THEN Raise("APIError: no table")
    ELSE PickResult(ScanTables(matches, location_name))

\* the body of parse_zip_cached once the archive is open, on the normalized name
ScanNormalized(archive, location_name) ==
    ScanMatches(CandidateTables(archive, location_name), location_name)

\* the body of parse_zip_cached once the archive is open
ScanArchive(archive, name) == ScanNormalized(archive, Normalize(name))

\* ScanArchive, tabulated once for the archives and names of the model
ScanResult ==
    [body \in Archives, name \in LocationNames |-> ScanArchive(ZipTables(body), name)]

\* zipfile.ZipFile(zip_filename, 'r') and the scan
OpenAndScan(file, name) ==
    IF ~file.exists THEN Raise("FileNotFoundError")
    ELSE IF ~file.complete THEN Raise("BadZipFile")
    ELSE ScanResult[file.content, name]

\* parse_zip_cached after get_zip_cached gave z
ParseZipAfter(z, name) ==
    IF z.outcome = "raise"
    THEN [outcome |-> "raise", value |-> [error |-> z.error], file |-> z.file,
          gets |-> z.gets, scans |-> 0]
    ELSE [outcome |-> OpenAndScan(z.file, name).outcome,
          value   |-> OpenAndScan(z.file, name).value,
          file    |-> z.file,
          gets    |-> z.gets,
          scans   |-> IF z.file.exists /\ z.file.complete THEN 1 ELSE 0]

\* parse_zip_cached(url, cache_filename, location_name), unwrapped:
\* what it returns or raises, the file it leaves, the requests and scans it made
ParseZip(file, t, resp, fault, name) ==
    ParseZipAfter(GetZipCached(file, t, resp, fault), name)

(***************************************************************************)
(* shelve_cache: the persistent memo around parse_zip_cached               *)
(***************************************************************************)
\* how the three arguments are passed: all positional (the module's own
\* __main__), or location_name by keyword (Location.__init__ in utils.py)
CallForms == {"positional", "keyword"}

ArgsOf(form, url, cache_filename, location_name) ==
    IF form = "positional" THEN <<url, cache_filename, location_name>>
    ELSE <<url, cache_filename>>

KwargsOf(form, location_name) ==
    IF form = "positional" THEN <<>> ELSE << <<"location_name", location_name>> >>

\* cache_key = repr(args) + repr(kwargs)
CacheKey(args, kwargs) == <<args, kwargs>>

KeyOf(form, name) ==
    CacheKey(ArgsOf(form, ZipUrl, ZipCache, name), KwargsOf(form, name))

\* "is it cached?"
ShelfHit(store, key) == key \in DOMAIN store

\* (mutant) the shelve opened with flag 'n': a new, empty store for each save
ShelfPut_NewStore(store, key, ret) == [k \in {key} |-> ret]

\* "save for next time": f[cache_key] = ret
ShelfPut(store, key, ret) ==
    [k \in DOMAIN store \cup {key} |-> IF k = key THEN ret ELSE store[k]]

\* (mutant) the save made whatever func did, as in a finally clause
WrapperMiss_StoreAlways(store, key, r) ==
    [outcome |-> r.outcome, value |-> r.value, file |-> r.file,
     shelf   |-> ShelfPut(store, key, r.value),
     gets    |-> r.gets, scans |-> r.scans]

\* lines 121-128: func was called and gave r; its value is saved when it returned
WrapperMiss(store, key, r) ==
    [outcome |-> r.outcome, value |-> r.value, file |-> r.file,
     shelf   |-> IF r.outcome = "return" THEN ShelfPut(store, key, r.value) ELSE store,
     gets    |-> r.gets, scans |-> r.scans]

\* (mutant) the lookup left out: func is called every time
WrapperKeyed_NoLookup(store, key, file, t, resp, fault, name) ==
    WrapperMiss(store, key, ParseZip(file, t, resp, fault, name))

\* the wrapper: the call's outcome and the shelve and archive file it leaves
WrapperKeyed(store, key, file, t, resp, fault, name) ==
    IF ShelfHit(store, key)
    THEN [outcome |-> "return", value |-> store[key], file |-> file, shelf |-> store,
          gets |-> 0, scans |-> 0]
    ELSE WrapperMiss(store, key, ParseZip(file, t, resp, fault, name))

Wrapper(store, file, t, resp, fault, form, name) ==
    WrapperKeyed(store, KeyOf(form, name), file, t, resp, fault, name)

(***************************************************************************)
(* Local time.  datetime.datetime.now() and astimezone(tz=None) show the   *)
(* wall clock of the system's zone: the instant plus the zone's offset at  *)
(* that instant.  Two zones: UTC, and Europe/Oslo, whose summer time of    *)
(* 2024 runs from 31 March 01:00 UTC to 27 October 01:00 UTC.              *)
(***************************************************************************)
Zones == {"UTC", "Europe/Oslo"}

DstStart == 19813 * SecondsPerDay + 3600
DstEnd   == 20023 * SecondsPerDay + 3600

UtcOffset(zone, u) ==
    IF zone = "UTC" THEN 0
    ELSE IF DstStart <= u /\ u < DstEnd THEN 7200 ELSE 3600

\* an instant as naive local time, in seconds
ToLocal(zone, u) == u + UtcOffset(zone, u)

(***************************************************************************)
(* API_Locationforecast and Cache.__init__: the location, its hash and     *)
(* the cache file's name.                                                  *)
(***************************************************************************)
\* location objects: a coordinate and the forecast_link, which is the class
\* attribute 'locationforecast' unless Location.__init__ set it
ForecastLocations ==
    {[lat |-> "50.0", lon |-> "14.4", forecast_link |-> "locationforecast"],
     [lat |-> "50.0", lon |-> "14.4", forecast_link |-> "forecast"]}

\* 'lat={lat};lon={lon}'
LocationNameOf(loc) == <<"lat=", loc.lat, ";lon=", loc.lon>>

\* get_hash: '{location_name}.{forecast_link}'
GetHash(loc) == LocationNameOf(loc) \o <<".", loc.forecast_link>>

\* Cache.filename: '{location_hash}.{extension}' in the temp directory
CacheFilename(loc) == GetHash(loc) \o <<".", "xml">>

CacheFilenames == {CacheFilename(loc) : loc \in ForecastLocations}

(***************************************************************************)
(* Forecast payloads, by what xmltodict.parse makes of them:               *)
(*   "dict"     one <model nextrun=.../> element: meta['model'] is a dict  *)
(*   "list"     several <model> elements: meta['model'] is a list          *)
(*   "text"     a <model> without attributes: meta['model'] is a str/None  *)
(*   "no_meta"  well-formed XML without weatherdata/meta/model             *)
(*   "not_xml"  not well-formed: xmltodict raises ExpatError               *)
(* nextrun is the instant the first model's @nextrun names, as             *)
(* "%Y-%m-%dT%H:%M:%SZ", in seconds.  eol is how the text ends its lines:  *)
(* "lf" for \n, "crlf" for \r\n.                                           *)
(***************************************************************************)
\* the instant the forecast behaviours start at: 2024-10-27 00:30:00 UTC
StartInstant == DstEnd - 1800

NextRuns == {StartInstant + 1, DstEnd + 900}

Payload(shape, nextrun) ==
    [exists |-> TRUE, shape |-> shape, nextrun |-> nextrun, eol |-> "lf"]

\* the same document with \r\n line ends
WithCrLf(text) == [text EXCEPT !.eol = "crlf"]

Payloads ==
    {Payload(sh, n) : sh \in {"dict", "list"}, n \in NextRuns} \cup
    {Payload(sh, 0) : sh \in {"text", "no_meta", "not_xml"}} \cup
    {WithCrLf(Payload("dict", DstEnd + 900))}

NoCacheFile == [exists |-> FALSE, shape |-> "", nextrun |-> 0, eol |-> "lf"]

\* what a dump that failed while writing leaves: a truncated document
TruncatedFile == Payload("not_xml", 0)

(***************************************************************************)
(* Cache.valid_until_timestamp_from_file and Cache.is_fresh                *)
(***************************************************************************)
\* the value returned: a naive local datetime, or the bool False, or a raise
ValidTime(t)     == [kind |-> "datetime", t |-> t, error |-> ""]
ValidFalse       == [kind |-> "False",    t |-> 0, error |-> ""]
ValidRaise(e)    == [kind |-> "raise",    t |-> 0, error |-> e]

\* lines 207-211: the UTC timestamp converted to local time, tzinfo removed
NextUpdateLocal(zone, nextrun) == ToLocal(zone, nextrun)

\* (mutant) the except ExpatError clause left out
ValidUntil_NoExcept(file, zone) ==
    CASE file.shape = "not_xml" -> ValidRaise("ExpatError")
      [] file.shape = "no_meta" -> ValidRaise("KeyError")
      [] file.shape \in {"dict", "list"} -> ValidTime(NextUpdateLocal(zone, file.nextrun))
      [] OTHER -> ValidFalse

ValidUntilTimestampFromFile(file, zone) ==
    CASE file.shape = "not_xml" -> ValidTime(ToLocal(zone, 0))
      [] file.shape = "no_meta" -> ValidRaise("KeyError")
      [] file.shape \in {"dict", "list"} -> ValidTime(NextUpdateLocal(zone, file.nextrun))
      [] OTHER -> ValidFalse

\* (mutant) the comparison made strict
NotAfter_Strict(nowLocal, validUntil) == nowLocal < validUntil

\* datetime.datetime.now() <= valid_until
NotAfter(nowLocal, validUntil) == nowLocal <= validUntil

\* is_fresh given what valid_until_timestamp_from_file gave: comparing a
\* datetime with the bool False raises TypeError
IsFreshOf(v, zone, t) ==
    CASE v.kind = "raise"    -> [outcome |-> "raise", fresh |-> FALSE, error |-> v.error]
      [] v.kind = "False"    -> [outcome |-> "raise", fresh |-> FALSE, error |-> "TypeError"]
      [] v.kind = "datetime" -> [outcome |-> "return", error |-> "",
                                 fresh |-> NotAfter(ToLocal(zone, t), v.t)]

IsFresh(file, zone, t) == IsFreshOf(ValidUntilTimestampFromFile(file, zone), zone, t)

(***************************************************************************)
(* Connect.read                                                            *)
(***************************************************************************)
\* faults of the file system while the cache file is written
DumpFaults == {"none", "open", "write"}

\* Cache.dump: open(filename, 'w') truncates, write fills
Dump(file, data, fault) ==
    CASE fault = "none"  -> data
      [] fault = "open"  -> file
      [] fault = "write" -> TruncatedFile

\* what one read meets: the response to its GET and the fault of its dump
ReadEnvironments ==
    {e \in [resp : Responses(Payloads, NoCacheFile), fault : DumpFaults] :
        e.resp.status # 200 => e.fault = "none"}

NoReadEnvironment == [resp |-> [status |-> 0, body |-> NoCacheFile], fault |-> "none"]

ReadEnvironmentsIf(requests) == IF requests THEN ReadEnvironments ELSE {NoReadEnvironment}

ReadResult(outcome, value, file, gets, writes) ==
    [outcome |-> outcome, value |-> value, file |-> file, gets |-> gets, writes |-> writes]

\* (mutant) the response written to the cache file before its status is looked at
ReadOnline_DumpFirst(file, resp, fault) ==
    IF UrlopenRaised(resp) THEN ReadResult("raise", [error |-> "URLError"], file, 1, 0)
    ELSE IF resp.status # 200
    THEN ReadResult("raise", [error |-> "RuntimeError"], resp.body, 1, 1)
    ELSE IF fault # "none"
    THEN ReadResult("raise", [error |-> "OSError"], Dump(file, resp.body, fault), 1, 1)
    ELSE ReadResult("return", resp.body, Dump(file, resp.body, fault), 1, 1)

\* lines 156-163: read online and write the cache file
ReadOnline(file, resp, fault) ==
    IF UrlopenRaised(resp) THEN ReadResult("raise", [error |-> "URLError"], file, 1, 0)
    ELSE IF resp.status # 200 THEN ReadResult("raise", [error |-> "RuntimeError"], file, 1, 0)
    ELSE IF fault # "none"
    THEN ReadResult("raise", [error |-> "OSError"], Dump(file, resp.body, fault), 1, 1)
    ELSE ReadResult("return", resp.body, Dump(file, resp.body, fault), 1, 1)

\* Cache.load: open(filename, mode='r', encoding=...) reads in text mode with
\* universal newlines, so \r\n (and \r) in the file comes back as \n
Load(file) == [file EXCEPT !.eol = "lf"]

\* the else branch: weatherdata = cache.load()
ReadCached(file) == ReadResult("return", Load(file), file, 0, 0)

\* line 155 given what is_fresh gave, for a file that exists
ReadExisting(file, fresh, resp, fault) ==
    IF fresh.outcome = "raise" THEN ReadResult("raise", [error |-> fresh.error], file, 0, 0)
    ELSE IF ~fresh.fresh THEN ReadOnline(file, resp, fault)
    ELSE ReadCached(file)

\* line 155: not cache.exists() or not cache.is_fresh(), when it does not raise
ReadsOnline(file, zone, t) ==
    \/ ~file.exists
    \/ IsFresh(file, zone, t).outcome = "return" /\ ~IsFresh(file, zone, t).fresh

\* Connect.read for the cache file of its location
Read(file, zone, t, resp, fault) ==
    IF ~file.exists THEN ReadOnline(file, resp, fault)
    ELSE ReadExisting(file, IsFresh(file, zone, t), resp, fault)

(***************************************************************************)
(* The state machines.                                                     *)
(***************************************************************************)
NoCall == [op |-> "none", form |-> "none", name |-> <<>>, outcome |-> "none",
           value |-> None, gets |-> 0, scans |-> 0, hit |-> FALSE, stored |-> FALSE,
           status |-> 0, fault |-> NoFault, body |-> "", aged |-> FALSE]

NoRead == [op |-> "none", filename |-> <<>>, outcome |-> "none", value |-> NoCacheFile,
           gets |-> 0, writes |-> 0, before |-> NoCacheFile, at |-> 0,
           status |-> 0, fault |-> "none"]

EmptyShelf == [k \in {} |-> None]

NoCacheFiles == [f \in CacheFilenames |-> NoCacheFile]

\* the instants the clock can show: advanced by a second, or by a second less
\* than the staleness threshold, at most MaxAdvances times
LongStep == OldAgeDays * SecondsPerDay - 1

ClockValues ==
    {a + b * LongStep : a \in 0..MaxAdvances, b \in 0..MaxAdvances} \cap
    UNION {{a + b * LongStep : a \in 0..(MaxAdvances - b)} : b \in 0..MaxAdvances}

\* no concurrent processes: the calls of a behaviour follow one another
NoProcs == <<>>
NoDisk  == [exists |-> FALSE, blocks |-> <<>>]
NoLocations == <<>>

ResolverInit ==
    /\ now = 0
    /\ zipfile = NoFile
    /\ shelf = EmptyShelf
    /\ call = NoCall
    /\ tz = "UTC"
    /\ cachefiles = NoCacheFiles
    /\ fcall = NoRead
    /\ procs = NoProcs
    /\ disk = NoDisk
    /\ locations = NoLocations

forecastVars == <<tz, cachefiles, fcall>>
resolverVars == <<zipfile, shelf, call>>
procVars     == <<procs, disk, locations>>

\* time passes between calls
AdvanceClock ==
    /\ \E d \in {1, LongStep} : now + d \in ClockValues /\ now' = now + d
    /\ UNCHANGED <<zipfile, shelf, call, forecastVars, procVars>>

\* the body a call wrote to the archive file: that of its 200 response when the
\* write was made and met no fault
BodyWritten(gets, resp, fault) ==
    IF gets = 1 /\ resp.status = 200 /\ fault = NoFault THEN resp.body ELSE ""

\* the call found a file at cache_filename whose age had reached old_age_days
Aged(file, t) == file.exists /\ ~FileAgeBelow(file, t, OldAgeDays)

\* the record of a get_zip_cached call that gave z; the status is that of the
\* response when a request was made, the fault is recorded when the write was
\* attempted, that is, after a 200 response
GetZipCall(z, wasHit, wasAged, resp, fault) ==
    [op |-> "get_zip_cached", form |-> "positional", name |-> <<>>,
     outcome |-> z.outcome,
     value |-> IF z.outcome = "return" THEN [path |-> ZipCache] ELSE [error |-> z.error],
     gets |-> z.gets, scans |-> 0, hit |-> wasHit, stored |-> FALSE,
     status |-> IF z.gets = 1 THEN resp.status ELSE 0,
     fault |-> IF z.writes = 1 THEN fault ELSE NoFault,
     body |-> BodyWritten(z.gets, resp, fault),
     aged |-> wasAged]

\* a direct call get_zip_cached(url, cache_filename)
CallGetZipCached ==
    \E env \in EnvironmentsIf(~ZipCacheHit(zipfile, now), Archives) :
        \E z \in {GetZipCached(zipfile, now, env.resp, env.fault)} :
            /\ zipfile' = z.file
            /\ call' = GetZipCall(z, ZipCacheHit(zipfile, now), Aged(zipfile, now),
                                  env.resp, env.fault)
            /\ UNCHANGED <<now, shelf, forecastVars, procVars>>

\* the record of a parse_zip_cached call that gave w
ParseZipCall(w, form, name, wasStored, wasHit, wasAged, resp, fault) ==
    [op |-> "parse_zip_cached", form |-> form, name |-> name,
     outcome |-> w.outcome, value |-> w.value,
     gets |-> w.gets, scans |-> w.scans,
     hit |-> ~wasStored /\ wasHit, stored |-> wasStored,
     status |-> IF w.gets = 1 THEN resp.status ELSE 0,
     fault |-> IF w.gets = 1 /\ resp.status = 200 THEN fault ELSE NoFault,
     body |-> BodyWritten(w.gets, resp, fault),
     aged |-> ~wasStored /\ wasAged]

\* a call parse_zip_cached(url, cache_filename, location_name), through the wrapper
CallParseZipCached ==
    \E form \in CallForms, name \in LocationNames :
      \E env \in EnvironmentsIf(~ShelfHit(shelf, KeyOf(form, name))
                                   /\ ~ZipCacheHit(zipfile, now), Archives) :
        \E w \in {Wrapper(shelf, zipfile, now, env.resp, env.fault, form, name)} :
            /\ zipfile' = w.file
            /\ shelf' = w.shelf
            /\ call' = ParseZipCall(w, form, name, ShelfHit(shelf, KeyOf(form, name)),
                                    ZipCacheHit(zipfile, now), Aged(zipfile, now),
                                    env.resp, env.fault)
            /\ UNCHANGED <<now, forecastVars, procVars>>

ResolverNext == AdvanceClock \/ CallGetZipCached \/ CallParseZipCached

SpecResolver == ResolverInit /\ [][ResolverNext]_vars

(***************************************************************************)
(* The forecast cache as a state machine.                                  *)
(***************************************************************************)
\* the instants the clock can show: advanced by a second or by half an hour,
\* at most MaxTicks times
TickValues ==
    UNION {{StartInstant + a + b * 1800 : a \in 0..(MaxTicks - b)} : b \in 0..MaxTicks}

ForecastInit ==
    /\ now = StartInstant
    /\ tz \in Zones
    /\ cachefiles = NoCacheFiles
    /\ fcall = NoRead
    /\ zipfile = NoFile
    /\ shelf = EmptyShelf
    /\ call = NoCall
    /\ procs = NoProcs
    /\ disk = NoDisk
    /\ locations = NoLocations

\* time passes between calls
Tick ==
    /\ \E d \in {1, 1800} : now + d \in TickValues /\ now' = now + d
    /\ UNCHANGED <<tz, cachefiles, fcall, resolverVars, procVars>>

\* the record of a read of filename that gave r
ReadCall(r, filename, before, t, resp, fault) ==
    [op |-> "read", filename |-> filename, outcome |-> r.outcome, value |-> r.value,
     gets |-> r.gets, writes |-> r.writes, before |-> before, at |-> t,
     status |-> IF r.gets = 1 THEN resp.status ELSE 0,
     fault |-> IF r.writes = 1 THEN fault ELSE "none"]

\* Connect(location).read()
CallRead ==
    \E loc \in ForecastLocations :
      \E env \in ReadEnvironmentsIf(ReadsOnline(cachefiles[CacheFilename(loc)], tz, now)) :
        \E r \in {Read(cachefiles[CacheFilename(loc)], tz, now, env.resp, env.fault)} :
            /\ cachefiles' = [cachefiles EXCEPT ![CacheFilename(loc)] = r.file]
            /\ fcall' = ReadCall(r, CacheFilename(loc), cachefiles[CacheFilename(loc)],
                                 now, env.resp, env.fault)
            /\ UNCHANGED <<now, tz, resolverVars, procVars>>

ForecastNext == Tick \/ CallRead

SpecForecast == ForecastInit /\ [][ForecastNext]_vars

(***************************************************************************)
(* The library as a whole: a session works either on the resolver's files  *)
(* or on the forecast cache.  The two parts share no file; only the clock   *)
(* is common, and it tells which part a state belongs to.                  *)
(***************************************************************************)
Init == ResolverInit \/ ForecastInit

Next ==
    \/ now \in ClockValues /\ ResolverNext
    \/ now \in TickValues /\ ForecastNext

Spec == Init /\ [][Next]_vars

(***************************************************************************)
(* Connect.read step by step, run by several processes on the cache file   *)
(* of one location.  Nothing in the source locks the file.  A text is a    *)
(* sequence of blocks <<payload, i>>, the i-th part of that payload, so    *)
(* that a file can hold no text, a whole payload or a mixture.             *)
(***************************************************************************)
Procs == {"p", "q"}

\* the payloads the provider serves while the processes run: a short document
\* with one <model> element and a longer one with several
RacePayloads == {Payload("dict", StartInstant + 1), Payload("list", DstEnd + 900)}

Size(payload) == IF payload.shape = "list" THEN 2 ELSE 1

Blocks(payload) == [i \in 1..Size(payload) |-> <<payload, i>>]

NoText == <<>>

\* the text is one whole payload of the provider
IsPayload(text) == \E payload \in RacePayloads : text = Blocks(payload)

\* what xmltodict.parse sees in a text: the payload when it is a whole one, a
\* document that is not well-formed when it is empty or a mixture
Parsed(text) ==
    IF IsPayload(text) THEN CHOOSE payload \in RacePayloads : text = Blocks(payload)
    ELSE Payload("not_xml", 0)

\* f.read() of Cache.load on the file's text
LoadText(text) == [i \in 1..Len(text) |-> <<Load(text[i][1]), text[i][2]>>]

\* open(filename, mode='w'): the file is created or truncated to nothing
Truncated == [exists |-> TRUE, blocks |-> NoText]

\* (mutant) the data replaces the file as a whole, as a rename of a finished
\* temporary file would
WriteAtStart_Replace(file, data) == [exists |-> TRUE, blocks |-> data]

\* f.write(data) and the close: the data goes to the start of the file, what
\* the file holds beyond the data's end stays
WriteAtStart(file, data) ==
    [exists |-> TRUE, blocks |-> data \o SubSeq(file.blocks, Len(data) + 1, Len(file.blocks))]

\* a process outside any call, and the locals of a call: the data fetched, the
\* text written, the requests and writes made, how the call ended
Idle == [pc |-> "idle", data |-> NoText, written |-> NoText, outcome |-> "none",
         value |-> NoText, error |-> "", gets |-> 0, writes |-> 0, calls |-> 0]

Returned(proc, text) ==
    [proc EXCEPT !.pc = "idle", !.outcome = "return", !.value = text]

Raised(proc, e) ==
    [proc EXCEPT !.pc = "idle", !.outcome = "raise", !.error = e]

At(proc, pc) == [proc EXCEPT !.pc = pc]

ReadersInit ==
    /\ now = StartInstant
    /\ tz \in Zones
    /\ disk = NoDisk
    /\ procs = [p \in Procs |-> Idle]
    /\ locations = NoLocations
    /\ cachefiles = NoCacheFiles
    /\ fcall = NoRead
    /\ zipfile = NoFile
    /\ shelf = EmptyShelf
    /\ call = NoCall

readersFrame == <<now, tz, cachefiles, fcall, resolverVars, locations>>

\* read() is called: cache = Cache(self.location)
ReadBegin(p) ==
    /\ procs[p].pc = "idle"
    /\ procs[p].calls < MaxCalls
    /\ procs' = [procs EXCEPT ![p] = [Idle EXCEPT !.pc = "exists",
                                                  !.calls = procs[p].calls + 1]]
    /\ UNCHANGED <<disk, readersFrame>>

\* line 155, left operand: not cache.exists()
ReadExists(p) ==
    /\ procs[p].pc = "exists"
    /\ procs' = [procs EXCEPT ![p] =
                    At(procs[p], IF disk.exists THEN "is_fresh" ELSE "fetch")]
    /\ UNCHANGED <<disk, readersFrame>>

\* where the call goes on what is_fresh gave
AfterIsFresh(proc, fresh) ==
    IF fresh.outcome = "raise" THEN Raised(proc, fresh.error)
    ELSE IF fresh.fresh THEN At(proc, "load")
    ELSE At(proc, "fetch")

\* line 155, right operand: not cache.is_fresh(), which loads and parses the file
ReadIsFresh(p) ==
    /\ procs[p].pc = "is_fresh"
    /\ procs' = [procs EXCEPT ![p] =
                    IF ~disk.exists THEN Raised(procs[p], "FileNotFoundError")
                    ELSE AfterIsFresh(procs[p], IsFresh(Parsed(disk.blocks), tz, now))]
    /\ UNCHANGED <<disk, readersFrame>>

\* (mutant) a response that is not a 200 makes the call ask again
AfterFetch_Retry(proc, resp) ==
    IF UrlopenRaised(resp) THEN Raised(proc, "URLError")
    ELSE IF resp.status # 200 THEN At(proc, "fetch")
    ELSE [proc EXCEPT !.pc = "dump_open", !.data = Blocks(resp.body)]

\* where the call goes on the response to its GET
AfterFetch(proc, resp) ==
    IF UrlopenRaised(resp) THEN Raised(proc, "URLError")
    ELSE IF resp.status # 200 THEN Raised(proc, "RuntimeError")
    ELSE [proc EXCEPT !.pc = "dump_open", !.data = Blocks(resp.body)]

\* lines 156-162: the GET, the status test and the decode
ReadFetch(p) ==
    /\ procs[p].pc = "fetch"
    /\ \E resp \in Responses(RacePayloads, NoCacheFile) :
          procs' = [procs EXCEPT ![p] =
                      AfterFetch([procs[p] EXCEPT !.gets = procs[p].gets + 1], resp)]
    /\ UNCHANGED <<disk, readersFrame>>

\* Cache.dump, the open: the file is truncated
ReadDumpOpen(p) ==
    /\ procs[p].pc = "dump_open"
    /\ \E ok \in BOOLEAN :
          IF ok
          THEN /\ disk' = Truncated
               /\ procs' = [procs EXCEPT ![p] =
                              [procs[p] EXCEPT !.pc = "dump_write",
                                               !.writes = procs[p].writes + 1]]
          ELSE /\ disk' = disk
               /\ procs' = [procs EXCEPT ![p] = Raised(procs[p], "OSError")]
    /\ UNCHANGED readersFrame

\* the text a call hands to f.write
DumpData(proc) == proc.data

\* Cache.dump, the write and the close, and line 166: return weatherdata
ReadDumpWrite(p) ==
    /\ procs[p].pc = "dump_write"
    /\ \E ok \in BOOLEAN :
          IF ok
          THEN /\ disk' = WriteAtStart(disk, DumpData(procs[p]))
               /\ procs' = [procs EXCEPT ![p] =
                              Returned([procs[p] EXCEPT !.written = DumpData(procs[p])],
                                       procs[p].data)]
          ELSE /\ disk' = disk
               /\ procs' = [procs EXCEPT ![p] = Raised(procs[p], "OSError")]
    /\ UNCHANGED readersFrame

\* line 165 and 166: weatherdata = cache.load(); return weatherdata
ReadLoad(p) ==
    /\ procs[p].pc = "load"
    /\ procs' = [procs EXCEPT ![p] =
                    IF ~disk.exists THEN Raised(procs[p], "FileNotFoundError")
                    ELSE Returned(procs[p], LoadText(disk.blocks))]
    /\ UNCHANGED <<disk, readersFrame>>

\* a step of process p inside a call
ReadProgress(p) ==
    \/ ReadExists(p)
    \/ ReadIsFresh(p)
    \/ ReadFetch(p)
    \/ ReadDumpOpen(p)
    \/ ReadDumpWrite(p)
    \/ ReadLoad(p)

ReadersNext == \E p \in Procs : ReadBegin(p) \/ ReadProgress(p)

\* each process keeps running once inside a call, and every request it makes
\* is answered or fails
SpecReaders ==
    ReadersInit /\ [][ReadersNext]_vars /\ \A p \in Procs : WF_vars(ReadProgress(p))

(***************************************************************************)
(* get_zip_cached and parse_zip_cached step by step, run by several        *)
(* processes with the same cache_filename and shelve.  Nothing in the      *)
(* source locks either.                                                    *)
(***************************************************************************)
\* the size of a response body, in blocks: the later edition is the longer
ZipSize(body) == IF body = "v1" THEN 1 ELSE 2

\* the name the concurrent resolve calls ask for, by keyword as Location does
RaceName == Name_n_s_k
RaceKey  == KeyOf("keyword", RaceName)

\* a process outside any call, and the locals of a call: the operation, the
\* response body to be written, how the call ended, and what the call found
\* at cache_filename when it took the file for the archive (at the cache hit
\* or when it opened it as a zip), and whether another process was then
\* between its open and the end of its write
ZipIdle == [pc |-> "idle", op |-> "none", body |-> "", outcome |-> "none",
            value |-> None, observed |-> "none", during |-> FALSE, calls |-> 0]

ZipOps == {"get_zip_cached", "parse_zip_cached"}

\* the state of the file as an observer finds it
Observe(file) ==
    IF ~file.exists THEN "missing" ELSE IF file.complete THEN "complete" ELSE "partial"

\* another process than p has opened the file for writing and not yet closed it
WriterInside(p) == \E q \in Procs \ {p} : procs[q].pc = "write"

ZipEnded(proc, outcome, value) ==
    [proc EXCEPT !.pc = "idle", !.outcome = outcome, !.value = value]

\* get_zip_cached returns cache_filename: the call ends, or parse_zip_cached goes on
GotZip(proc) ==
    IF proc.op = "get_zip_cached" THEN ZipEnded(proc, "return", [path |-> ZipCache])
    ELSE [proc EXCEPT !.pc = "scan"]

ArchiveRaceInit ==
    /\ now = OldAgeDays * SecondsPerDay
    /\ zipfile \in {NoFile, FileOf("v1", 0)}
    /\ shelf = EmptyShelf
    /\ procs = [p \in Procs |-> ZipIdle]
    /\ call = NoCall
    /\ tz = "UTC"
    /\ cachefiles = NoCacheFiles
    /\ fcall = NoRead
    /\ disk = NoDisk
    /\ locations = NoLocations

archiveRaceFrame == <<now, call, forecastVars, disk, locations>>

\* a call begins: parse_zip_cached enters the wrapper, get_zip_cached its body
ZipBegin(p) ==
    /\ procs[p].pc = "idle"
    /\ procs[p].calls < MaxCalls
    /\ \E op \in ZipOps :
          procs' = [procs EXCEPT ![p] =
                      [ZipIdle EXCEPT !.pc = IF op = "parse_zip_cached" THEN "lookup" ELSE "check",
                                      !.op = op,
                                      !.calls = procs[p].calls + 1]]
    /\ UNCHANGED <<zipfile, shelf, archiveRaceFrame>>

\* the wrapper, lines 113-119: "is it cached?"
ZipLookup(p) ==
    /\ procs[p].pc = "lookup"
    /\ procs' = [procs EXCEPT ![p] =
                    IF ShelfHit(shelf, RaceKey)
                    THEN ZipEnded(procs[p], "return", shelf[RaceKey])
                    ELSE [procs[p] EXCEPT !.pc = "check"]]
    /\ UNCHANGED <<zipfile, shelf, archiveRaceFrame>>

\* get_zip_cached, lines 46-50: the file exists and is young enough
ZipCheck(p) ==
    /\ procs[p].pc = "check"
    /\ procs' = [procs EXCEPT ![p] =
                    IF ZipCacheHit(zipfile, now)
                    THEN GotZip([procs[p] EXCEPT !.observed = Observe(zipfile),
                                                 !.during = WriterInside(p)])
                    ELSE [procs[p] EXCEPT !.pc = "urlopen"]]
    /\ UNCHANGED <<zipfile, shelf, archiveRaceFrame>>

\* lines 53-59: the request and the status test; the body is not read yet
ZipUrlopen(p) ==
    /\ procs[p].pc = "urlopen"
    /\ \E resp \in Responses(Archives, "") :
          procs' = [procs EXCEPT ![p] =
                      IF UrlopenRaised(resp)
                      THEN ZipEnded(procs[p], "raise", [error |-> "URLError"])
                      ELSE IF resp.status # 200
                      THEN ZipEnded(procs[p], "raise", [error |-> "APIError: status"])
                      ELSE [procs[p] EXCEPT !.pc = "open", !.body = resp.body]]
    /\ UNCHANGED <<zipfile, shelf, archiveRaceFrame>>

\* line 62: open(cache_filename, 'wb') creates the file or truncates it; when
\* it fails, the except clause removes the file if it can and the call returns
ZipOpen(p) ==
    /\ procs[p].pc = "open"
    /\ \E fault \in {NoFault} \cup [write : {"open"}, removeFails : BOOLEAN] :
          IF fault = NoFault
          THEN /\ zipfile' = PartialFile(now)
               /\ procs' = [procs EXCEPT ![p] = [procs[p] EXCEPT !.pc = "write"]]
          ELSE /\ zipfile' = ZipWrite(zipfile, now, procs[p].body, fault)
               /\ procs' = [procs EXCEPT ![p] = GotZip(procs[p])]
    /\ UNCHANGED <<shelf, archiveRaceFrame>>

\* the file after f.write(body) at the start of a file opened before: the
\* body, followed by what the file holds beyond the body's length
Overwritten(file, body, t) ==
    IF file.exists /\ file.complete /\ ZipSize(file.content) > ZipSize(body)
    THEN PartialFile(t)
    ELSE FileOf(body, t)

\* line 63: f.write(response.read()), the download and the write, and the
\* close; when it fails, the except clause removes the file if it can
ZipWriteBody(p) ==
    /\ procs[p].pc = "write"
    /\ \E fault \in {NoFault} \cup [write : {"write"}, removeFails : BOOLEAN] :
          zipfile' = IF fault = NoFault THEN Overwritten(zipfile, procs[p].body, now)
                     ELSE IF fault.removeFails THEN zipfile
                     ELSE NoFile
    /\ procs' = [procs EXCEPT ![p] = GotZip(procs[p])]
    /\ UNCHANGED <<shelf, archiveRaceFrame>>

\* parse_zip_cached, lines 149-181: the zip is opened and scanned; and the
\* wrapper, lines 125-128: the result is saved when there is one
ZipScan(p) ==
    /\ procs[p].pc = "scan"
    /\ \E r \in {OpenAndScan(zipfile, RaceName)} :
          /\ procs' = [procs EXCEPT ![p] =
                          ZipEnded([procs[p] EXCEPT
                                      !.observed = Observe(zipfile),
                                      !.during = procs[p].during \/ WriterInside(p)],
                                   r.outcome, r.value)]
          /\ shelf' = IF r.outcome = "return" THEN ShelfPut(shelf, RaceKey, r.value)
                      ELSE shelf
    /\ UNCHANGED <<zipfile, archiveRaceFrame>>

ArchiveRaceNext ==
    \E p \in Procs :
        \/ ZipBegin(p)
        \/ ZipLookup(p)
        \/ ZipCheck(p)
        \/ ZipUrlopen(p)
        \/ ZipOpen(p)
        \/ ZipWriteBody(p)
        \/ ZipScan(p)

SpecArchiveRace == ArchiveRaceInit /\ [][ArchiveRaceNext]_vars

(***************************************************************************)
(* Location objects and their cache files: objects are constructed from a  *)
(* latitude, a longitude, an altitude (msl) and a forecast type, and read. *)
(***************************************************************************)
\* the arguments objects are constructed from: the latitude as a float and as
\* an int, the default altitude and another one, the two forecast types of
\* Location.forecast_links
KeyLatitudes  == {PyFloat(<<"5", "0", ".", "0">>), PyInt(50)}
KeyLongitudes == {PyFloat(<<"1", "4", ".", "4">>)}
KeyAltitudes  == {PyInt(0), PyFloat(<<"2", "0", "2", ".", "0">>)}
KeyLinks      == {"forecast", "forecast_hour_by_hour"}

LocationArgs ==
    [lat : KeyLatitudes, lon : KeyLongitudes, msl : KeyAltitudes, forecast_link : KeyLinks]

\* API_Locationforecast.__init__ on an object whose forecast_link is set:
\* coordinates = dict(lat=lat, lon=lon), location_name formatted from them;
\* msl is not used
NewLocation(args) ==
    [lat |-> FormatNumber(args.lat), lon |-> FormatNumber(args.lon),
     forecast_link |-> args.forecast_link]

KeyFilenames == {CacheFilename(NewLocation(args)) : args \in LocationArgs}

KeysInit ==
    /\ now = StartInstant
    /\ tz = "UTC"
    /\ locations = NoLocations
    /\ cachefiles = [f \in KeyFilenames |-> NoCacheFile]
    /\ fcall = NoRead
    /\ zipfile = NoFile
    /\ shelf = EmptyShelf
    /\ call = NoCall
    /\ procs = NoProcs
    /\ disk = NoDisk

\* an object is constructed
Construct ==
    /\ Len(locations) < MaxObjects
    /\ \E args \in LocationArgs :
          locations' = Append(locations, [args |-> args, object |-> NewLocation(args)])
    /\ UNCHANGED <<now, tz, cachefiles, fcall, resolverVars, procs, disk>>

\* the record of a read through the i-th object that gave r
KeyReadCall(r, i, filename) ==
    [op |-> "read", object |-> i, filename |-> filename, outcome |-> r.outcome,
     value |-> r.value, gets |-> r.gets, writes |-> r.writes]

\* Connect(location).read() through one of the objects
ReadThrough ==
    \E i \in DOMAIN locations :
      \E resp \in Responses(RacePayloads, NoCacheFile) :
        \E r \in {Read(cachefiles[CacheFilename(locations[i].object)], tz, now, resp, "none")} :
            /\ cachefiles' = [cachefiles EXCEPT ![CacheFilename(locations[i].object)] = r.file]
            /\ fcall' = KeyReadCall(r, i, CacheFilename(locations[i].object))
            /\ UNCHANGED <<now, tz, resolverVars, procVars>>

KeysNext == Construct \/ ReadThrough

SpecKeys == KeysInit /\ [][KeysNext]_vars

(***************************************************************************)
(* Properties of the resolver, checked under SpecResolver.                 *)
(***************************************************************************)
\* a step that is a call of get_zip_cached, resp. of parse_zip_cached (the
\* clock stands still during a call, and call' is the call's record)
GetZipStep == now' = now /\ call'.op = "get_zip_cached"
ParseStep  == now' = now /\ call'.op = "parse_zip_cached"

\* the archive file is younger than the staleness threshold
ZipIsYoung == zipfile.exists /\ (now - zipfile.mtime) < OldAgeDays * SecondsPerDay

\* C2, as claimed: once a call with the three arguments (url, cache_path,
\* location_path) has returned a Coordinate (the shelve then holds it, under the
\* key of that call), every later call with the same three arguments, however
\* they are passed, returns that Coordinate with no archive fetch and no scan.
C2_MemoizedByArguments ==
    [][ParseStep =>
        \A form \in CallForms :
            KeyOf(form, call'.name) \in DOMAIN shelf =>
                /\ call'.outcome = "return"
                /\ call'.value = shelf[KeyOf(form, call'.name)]
                /\ call'.gets = 0
                /\ call'.scans = 0]_vars

\* C2, amended: once a call has returned a Coordinate, every later call with the
\* same three arguments passed in the same positional/keyword form returns the
\* identical Coordinate with no archive fetch and no archive scan, whatever the
\* archive file has become.
C2_MemoizedByKey ==
    [][ParseStep /\ KeyOf(call'.form, call'.name) \in DOMAIN shelf =>
        /\ call'.outcome = "return"
        /\ call'.value = shelf[KeyOf(call'.form, call'.name)]
        /\ call'.gets = 0
        /\ call'.scans = 0
        /\ zipfile' = zipfile
        /\ shelf' = shelf]_vars

\* a call answered from the shelve while the archive file is missing or stale
C2_Witness ==
    /\ call.op = "parse_zip_cached"
    /\ call.stored
    /\ call.outcome = "return"
    /\ call.scans = 0
    /\ ~ZipIsYoung

\* C3: whenever a file younger than the staleness threshold exists at
\* cache_path, get_zip_cached issues no HTTP request, leaves the file as it is
\* and returns cache_path; so does the get_zip_cached inside a parse_zip_cached
\* that is not answered from the shelve.
C3_ArchiveCacheFresh ==
    [][/\ GetZipStep /\ ZipIsYoung =>
            /\ call'.gets = 0
            /\ zipfile' = zipfile
            /\ call'.outcome = "return"
            /\ call'.value = [path |-> ZipCache]
       /\ ParseStep /\ ZipIsYoung =>
            /\ call'.gets = 0
            /\ zipfile' = zipfile]_vars

\* get_zip_cached has returned the path of a young file without a request
C3_Witness ==
    /\ call.op = "get_zip_cached"
    /\ call.hit
    /\ call.gets = 0
    /\ call.outcome = "return"
    /\ zipfile.exists /\ zipfile.complete /\ zipfile.mtime < now

\* C7, as claimed: when get_zip_cached got a 200 response and the write of the
\* body failed, the call raises to its caller and no file holding partial
\* content is left at cache_path.
C7_WriteFailurePropagates ==
    (call.op = "get_zip_cached" /\ call.gets = 1 /\ call.fault.write # "none") =>
        /\ call.outcome = "raise"
        /\ ~(zipfile.exists /\ ~zipfile.complete)

\* C8: a parse_zip_cached call that fails, for whatever reason, leaves the
\* shelve exactly as it was before the call.
C8_NoPoisoning ==
    [][ParseStep /\ call'.outcome = "raise" => shelf' = shelf]_vars

\* a call has failed on a malformed coordinate string while the shelve holds
\* something that could have been lost
C8_Witness ==
    /\ call.op = "parse_zip_cached"
    /\ call.outcome = "raise"
    /\ call.value = [error |-> "APIError: malformed coordinate"]
    /\ DOMAIN shelf # {}

\* C14: once the shelve holds a Coordinate under a key, no later call, of
\* parse_zip_cached or get_zip_cached, successful or failing, for any key and
\* with any archive contents, changes or removes it: keys are only ever added.
C14_StoredRecordsImmutable ==
    [][\A k \in DOMAIN shelf : k \in DOMAIN shelf' /\ shelf'[k] = shelf[k]]_vars

\* the shelve holds the place n/s_k twice, under the keys of the two call
\* forms, with the coordinates of two editions of the archive: the older
\* record outlived the archive's refresh and a later successful resolve
C14_Witness ==
    /\ KeyOf("positional", Name_n_s_k) \in DOMAIN shelf
    /\ KeyOf("keyword", Name_n_s_k) \in DOMAIN shelf
    /\ shelf[KeyOf("positional", Name_n_s_k)] # shelf[KeyOf("keyword", Name_n_s_k)]
    /\ call.op = "parse_zip_cached"
    /\ call.outcome = "return"
    /\ ~call.stored

\* C18: when no file exists at cache_path or its age is at or above the
\* staleness threshold, get_zip_cached issues exactly one GET; on a 200 response
\* with a successful write it returns, the file at cache_path holds exactly the
\* response body, and a call made immediately afterwards is a cache hit that
\* makes no request.
C18_ArchiveRefresh ==
    [][(GetZipStep /\ ~ZipCacheHit(zipfile, now)) =>
          /\ call'.gets = 1
          /\ (call'.status = 200 /\ call'.fault = NoFault) =>
                /\ call'.outcome = "return"
                /\ call'.body \in Archives
                /\ zipfile' = FileOf(call'.body, now')
                /\ ZipCacheHit(zipfile', now')
                /\ GetZipCached(zipfile', now', NoEnvironment.resp, NoFault).gets = 0
                /\ GetZipCached(zipfile', now', NoEnvironment.resp, NoFault).file = zipfile']_vars

\* a file whose age was exactly the threshold has been replaced by the body of
\* a 200 response
C18_Witness ==
    /\ call.op = "get_zip_cached"
    /\ call.aged
    /\ now = OldAgeDays * SecondsPerDay
    /\ call.gets = 1
    /\ call.status = 200
    /\ call.outcome = "return"
    /\ zipfile = FileOf(call.body, now)

\* two location paths differ only by letter case or by spaces versus underscores
SameLetter(c, d) ==
    \/ c = d
    \/ {c, d} \in {{"N", "n"}, {"S", "s"}, {"K", "k"}, {"X", "x"}, {"Z", "z"}, {"Q", "q"}}
    \/ {c, d} = {" ", "_"}

SamePlace(n1, n2) ==
    /\ Len(n1) = Len(n2)
    /\ \A i \in 1..Len(n1) : SameLetter(n1[i], n2[i])

\* what a call of parse_zip_cached made now would give its caller
ResultOf(w) == [outcome |-> w.outcome, value |-> w.value]

Resolved(env, form, name) ==
    ResultOf(Wrapper(shelf, zipfile, now, env.resp, env.fault, form, name))

\* C9, as claimed: after any sequence of resolve calls and archive refreshes,
\* two location paths that differ only by case or spacing resolve alike: a call
\* for the one and a call for the other, made in the same state and meeting the
\* same response, return the same Coordinate or fail alike.
C9_CaseAndSpacingInsensitive ==
    \A n1, n2 \in LocationNames, form \in CallForms :
        (n1 # n2 /\ SamePlace(n1, n2)) =>
            \A env \in Environments(Archives) :
                Resolved(env, form, n1) = Resolved(env, form, n2)

\* C9, amended: two location paths that differ only by case or spacing resolve
\* alike provided neither call is answered from the shelve, that is, both are
\* resolved by scanning the archive.
C9_InsensitiveWhenScanned ==
    \A n1, n2 \in LocationNames, form \in CallForms :
        (/\ n1 # n2 /\ SamePlace(n1, n2)
         /\ ~ShelfHit(shelf, KeyOf(form, n1))
         /\ ~ShelfHit(shelf, KeyOf(form, n2))) =>
            \A env \in EnvironmentsIf(~ZipCacheHit(zipfile, now), Archives) :
                Resolved(env, form, n1) = Resolved(env, form, n2)

\* a mixed-case path with a space has been resolved by scanning the archive
C9_Witness ==
    /\ call.op = "parse_zip_cached"
    /\ call.name = Name_N_S_k
    /\ ~call.stored
    /\ call.scans = 1
    /\ call.outcome = "return"
    /\ \E form \in CallForms : ~ShelfHit(shelf, KeyOf(form, Name_n_s_k))

\* a coordinate descriptor lat=<f>&lon=<f>&altitude=<f> of decimal numbers,
\* and the Coordinate it names
IsDescriptor(s) == \E lat, lon, alt \in Decimals : s = Descriptor(lat, lon, alt)

NamedCoordinate(s) ==
    CHOOSE c \in {CoordinateOf(<<lat, lon, alt>>) : lat, lon, alt \in Decimals} :
        \E lat, lon, alt \in Decimals :
            s = Descriptor(lat, lon, alt) /\ c = CoordinateOf(<<lat, lon, alt>>)

\* C10, as claimed, in its most favourable case: the call scanned an archive
\* with a single candidate table, and the first row of that table whose first
\* column is the normalized path has a descriptor of decimal numbers, negative
\* ones included; then the call returns the Coordinate holding those numbers.
C10_CoordinateParsing ==
    (call.op = "parse_zip_cached" /\ ~call.stored /\ call.scans = 1) =>
        \A t \in 1..Len(ZipTables(zipfile.content)) :
            LET tables == ZipTables(zipfile.content)
                rows   == tables[t].rows
                i      == FirstMatch(rows, Normalize(call.name))
            IN  (/\ Len(CandidateTables(tables, Normalize(call.name))) = 1
                 /\ EndsWith(tables[t].name, SplitFirst(Normalize(call.name)) \o DotCsv)
                 /\ i # 0
                 /\ IsDescriptor(rows[i][2]))
                => /\ call.outcome = "return"
                   /\ call.value = NamedCoordinate(rows[i][2])

\* the last call was a parse_zip_cached that opened the archive and scanned it;
\* the archive it scanned is the one now in the file
Scanned == call.op = "parse_zip_cached" /\ ~call.stored /\ call.scans = 1

\* the tables of the scanned archive whose name ends with <country>.csv, and
\* those of them that hold a row whose first column is the normalized path
ScannedTables == ZipTables(zipfile.content)

Candidates ==
    {t \in 1..Len(ScannedTables) :
        EndsWith(ScannedTables[t].name, SplitFirst(Normalize(call.name)) \o DotCsv)}

Matching == {t \in Candidates : FirstMatch(ScannedTables[t].rows, Normalize(call.name)) # 0}

\* the second column of the first matching row of table t
FirstDescriptor(t) ==
    ScannedTables[t].rows[FirstMatch(ScannedTables[t].rows, Normalize(call.name))][2]

\* the descriptor matches the pattern as the code applies it (numbers of digits
\* and dots only) and float() accepts its three numbers
Accepted(s) ==
    /\ ReMatch(s) # NoMatch
    /\ \A k \in 1..3 : PyFloat(ReMatch(s)[k]) # ValueError

\* C15, as claimed: the call returns a Coordinate iff exactly one candidate
\* table holds a match (its first matching row counting), fails with the
\* not-found error when there is no candidate table or none holds a match, and
\* fails with the ambiguity error when more than one candidate table holds one.
C15_MatchCounting ==
    Scanned =>
        /\ call.outcome = "return" <=> Cardinality(Matching) = 1
        /\ Candidates = {} => call.value = [error |-> "APIError: no table"]
        /\ (Candidates # {} /\ Matching = {}) => call.value = [error |-> "APIError: not found"]
        /\ Cardinality(Matching) > 1 => call.value = [error |-> "APIError: multiple matches"]

\* C15, amended: the same, provided the first matching row of every candidate
\* table has a descriptor the code accepts; when one of them has not, the call
\* fails, whatever the number of matches.
C15_MatchCountingOfAccepted ==
    Scanned =>
        /\ Candidates = {} =>
              /\ call.outcome = "raise"
              /\ call.value = [error |-> "APIError: no table"]
        /\ (\A t \in Matching : Accepted(FirstDescriptor(t))) =>
              /\ call.outcome = "return" <=> Cardinality(Matching) = 1
              /\ \A t \in Matching :
                    Cardinality(Matching) = 1 =>
                        call.value = CoordinateOf(ReMatch(FirstDescriptor(t)))
              /\ (Candidates # {} /\ Matching = {}) =>
                    call.value = [error |-> "APIError: not found"]
              /\ Cardinality(Matching) > 1 =>
                    call.value = [error |-> "APIError: multiple matches"]
        /\ (\E t \in Matching : ~Accepted(FirstDescriptor(t))) => call.outcome = "raise"

\* a call found two candidate tables and a match in one of them only, and
\* returned its Coordinate
C15_Witness ==
    /\ Scanned
    /\ Cardinality(Candidates) = 2
    /\ Cardinality(Matching) = 1
    /\ call.outcome = "return"

\* the candidate tables whose first matching row fails the coordinate pattern
Malformed == {t \in Matching : ReMatch(FirstDescriptor(t)) = NoMatch}

\* the call recorded in c scanned the archive in file, and in it the first
\* matching row of some candidate table fails the pattern (and no first
\* matching row makes float() fail, which would be another error)
MalformedIn(c, file) ==
    /\ c.op = "parse_zip_cached" /\ ~c.stored /\ c.scans = 1
    /\ LET tables == ZipTables(file.content)
           name   == Normalize(c.name)
           first(t) == tables[t].rows[FirstMatch(tables[t].rows, name)][2]
           matching ==
               {t \in 1..Len(tables) :
                   /\ EndsWith(tables[t].name, SplitFirst(name) \o DotCsv)
                   /\ FirstMatch(tables[t].rows, name) # 0}
       IN  /\ \E t \in matching : ReMatch(first(t)) = NoMatch
           /\ \A t \in matching : ReMatch(first(t)) # NoMatch => Accepted(first(t))

ScannedMalformed == MalformedIn(call, zipfile)

\* C16: if the first row matching the location name in a scanned candidate
\* table has a second column that does not match the coordinate pattern, the
\* call fails with the malformed-coordinate error, whatever later rows and
\* other candidate tables hold, and the shelve is left as it was.
C16_MalformedIsFatal ==
    [][(ParseStep /\ MalformedIn(call', zipfile')) =>
          /\ call'.outcome = "raise"
          /\ call'.value = [error |-> "APIError: malformed coordinate"]
          /\ shelf' = shelf]_vars

\* a call failed on a malformed first row although a later row of the same
\* table and another candidate table hold a well-formed match
C16_Witness ==
    /\ ScannedMalformed
    /\ call.value = [error |-> "APIError: malformed coordinate"]
    /\ \E t \in Malformed :
          /\ \E i \in 1..Len(ScannedTables[t].rows) :
                /\ i > FirstMatch(ScannedTables[t].rows, Normalize(call.name))
                /\ ScannedTables[t].rows[i][1] = Normalize(call.name)
                /\ Accepted(ScannedTables[t].rows[i][2])
          /\ \E u \in Matching \ {t} : Accepted(FirstDescriptor(u))

(***************************************************************************)
(* Properties of the forecast cache, checked under SpecForecast.           *)
(***************************************************************************)
\* a step that is a Connect.read (the clock stands still during a call, and
\* fcall' is the call's record)
ReadStep == now' = now /\ fcall'.op = "read"

\* the cached payload names a next-update instant in one of the two shapes
HasNextUpdate(file) == file.exists /\ file.shape \in {"dict", "list"}

\* the errors a read can raise that come from the network or the disk
FetchErrors == {[error |-> "URLError"], [error |-> "RuntimeError"], [error |-> "OSError"]}

\* C1, as claimed: a read that starts with no cache file and returns has made
\* exactly one GET and one cache write; a second read of the same location made
\* immediately afterwards, while the next-update instant of the payload just
\* written is still in the future, makes no GET and no write and returns the
\* same payload.
C1_FetchOnceThenCached ==
    [][/\ (ReadStep /\ ~fcall'.before.exists /\ fcall'.outcome = "return") =>
            /\ fcall'.gets = 1
            /\ fcall'.writes = 1
       /\ (/\ ReadStep
           /\ fcall.op = "read" /\ ~fcall.before.exists /\ fcall.outcome = "return"
           /\ fcall.at = now
           /\ fcall'.filename = fcall.filename
           /\ HasNextUpdate(fcall.value)
           /\ now < fcall.value.nextrun) =>
            /\ fcall'.gets = 0
            /\ fcall'.writes = 0
            /\ fcall'.outcome = "return"
            /\ fcall'.value = fcall.value]_vars

\* C4: for a cached payload whose next-update instant, converted to local time,
\* is T, a read at local time now <= T (now = T included) is a cache hit, and a
\* read at now > T refetches.
C4_FreshnessBoundary ==
    (fcall.op = "read" /\ HasNextUpdate(fcall.before)) =>
        /\ ToLocal(tz, fcall.at) <= ToLocal(tz, fcall.before.nextrun) =>
              /\ fcall.gets = 0
              /\ fcall.outcome = "return"
              /\ fcall.value = Load(fcall.before)
        /\ ToLocal(tz, fcall.at) > ToLocal(tz, fcall.before.nextrun) =>
              fcall.gets = 1

\* a read made exactly at the next-update time was answered from the cache
C4_Witness ==
    /\ fcall.op = "read"
    /\ HasNextUpdate(fcall.before)
    /\ ToLocal(tz, fcall.at) = ToLocal(tz, fcall.before.nextrun)
    /\ fcall.gets = 0
    /\ fcall.outcome = "return"

\* C5: when the cache file exists and its content cannot be parsed, the read
\* does not raise because of it: it makes one GET, and when the GET answers 200
\* and the write succeeds it overwrites the cache file with the fetched payload
\* and returns that payload; it raises only for the network or the disk.
C5_UnparseableIsStale ==
    (fcall.op = "read" /\ fcall.before.exists /\ fcall.before.shape = "not_xml") =>
        /\ fcall.gets = 1
        /\ (fcall.status = 200 /\ fcall.fault = "none") =>
              /\ fcall.outcome = "return"
              /\ fcall.writes = 1
              /\ cachefiles[fcall.filename] = fcall.value
        /\ fcall.outcome = "raise" => fcall.value \in FetchErrors

\* an unparseable cache file has been replaced by a fetched, parseable payload
C5_Witness ==
    /\ fcall.op = "read"
    /\ fcall.before.exists /\ fcall.before.shape = "not_xml"
    /\ fcall.outcome = "return"
    /\ HasNextUpdate(cachefiles[fcall.filename])
    /\ cachefiles[fcall.filename] = fcall.value

\* C6, as claimed: when the cached payload parses but its next-update field is
\* neither a single object nor a list, the read does not fail because of it: it
\* makes one GET and raises only for the network or the disk, and when the GET
\* answers 200 and the write succeeds it overwrites the cache file.
C6_UnrecognizedShapeIsStale ==
    (fcall.op = "read" /\ fcall.before.exists /\ fcall.before.shape = "text") =>
        /\ fcall.gets = 1
        /\ (fcall.status = 200 /\ fcall.fault = "none") =>
              /\ fcall.outcome = "return"
              /\ cachefiles[fcall.filename] = fcall.value
        /\ fcall.outcome = "raise" => fcall.value \in FetchErrors

\* the read recorded in fcall found its cache file present and fresh
ReadWasFresh ==
    /\ fcall.op = "read"
    /\ fcall.before.exists
    /\ IsFresh(fcall.before, tz, fcall.at).outcome = "return"
    /\ IsFresh(fcall.before, tz, fcall.at).fresh

\* C12, as claimed: when the forecast cache file exists and is fresh, the read
\* returns exactly the content of the cache file, issues no network request and
\* leaves the cache file unchanged.
C12_CacheHitReadOnly ==
    ReadWasFresh =>
        /\ fcall.outcome = "return"
        /\ fcall.value = fcall.before
        /\ fcall.gets = 0
        /\ fcall.writes = 0
        /\ cachefiles[fcall.filename] = fcall.before

(***************************************************************************)
(* Properties of Connect.read step by step, checked under SpecReaders.     *)
(***************************************************************************)
\* the moves of the per-call state machine: the cache check (exists, then
\* is_fresh), then the hit (load) or the fetch, the write (open, then write)
\* and the return; "idle" after a call began is its return or its error
PcEdges ==
    {<<"idle", "exists">>,
     <<"exists", "is_fresh">>, <<"exists", "fetch">>,
     <<"is_fresh", "load">>, <<"is_fresh", "fetch">>, <<"is_fresh", "idle">>,
     <<"load", "idle">>,
     <<"fetch", "dump_open">>, <<"fetch", "idle">>,
     <<"dump_open", "dump_write">>, <<"dump_open", "idle">>,
     <<"dump_write", "idle">>}

\* process p makes a step
Moves(p) == procs'[p] # procs[p]

\* C13: every Connect.read call follows the per-call state machine: the cache
\* check first, then the hit, which returns without a GET or a write, or the
\* fetch, then the write, then the return; the cache file changes only in the
\* write of a call whose GET was answered 200 with a payload; a call that
\* returns after its write returns the text it wrote; a call makes at most one
\* GET and at most one write; and every call that began ends, in a return or
\* in an error.
C13_PerCallStateMachine ==
    /\ [][/\ \A p \in Procs :
                Moves(p) =>
                    /\ <<procs[p].pc, procs'[p].pc>> \in PcEdges
                    /\ procs'[p].gets <= 1
                    /\ procs'[p].writes <= 1
                    /\ (procs'[p].pc = "idle" => procs'[p].outcome \in {"return", "raise"})
                    /\ (procs[p].pc = "load") =>
                          /\ procs'[p].outcome = "return"
                          /\ procs'[p].gets = 0
                          /\ procs'[p].writes = 0
                    /\ (procs[p].pc = "dump_write" /\ procs'[p].outcome = "return") =>
                          /\ procs'[p].value = procs'[p].written
                          /\ procs'[p].value = procs[p].data
                          /\ procs'[p].gets = 1
                          /\ procs'[p].writes = 1
          /\ disk' # disk =>
                \E p \in Procs :
                    /\ Moves(p)
                    /\ procs[p].pc \in {"dump_open", "dump_write"}
                    /\ procs[p].gets = 1
                    /\ IsPayload(procs[p].data)]_vars
    /\ \A p \in Procs : (procs[p].pc # "idle") ~> (procs[p].pc = "idle")

\* a process has, in its second call, fetched a payload, written it and
\* returned it, and the file holds it
C13_Witness ==
    \E p \in Procs :
        /\ procs[p].pc = "idle"
        /\ procs[p].calls = 2
        /\ procs[p].outcome = "return"
        /\ procs[p].gets = 1
        /\ procs[p].writes = 1
        /\ procs[p].value = procs[p].written
        /\ disk.blocks = procs[p].value

(***************************************************************************)
(* Properties of the concurrent archive calls, checked under               *)
(* SpecArchiveRace.                                                        *)
(***************************************************************************)
\* C19, as claimed: while a process is inside get_zip_cached between opening
\* the archive file for writing and the end of its write, no other process gets
\* a cache hit on, or opens as a zip, a file that holds only part of a response
\* body: what an observer finds is a complete file or no file.
C19_AtomicArchiveWrite ==
    \A p \in Procs : procs[p].during => procs[p].observed # "partial"

(***************************************************************************)
(* Properties of the cache file names, checked under SpecKeys.             *)
(***************************************************************************)
\* the number a Python int or float stands for, as mantissa and fraction digits
ValueOf(v) ==
    IF "int" \in DOMAIN v THEN [neg |-> FALSE, mant |-> v.int, exp |-> 0] ELSE v

\* the same coordinate (latitude, longitude, altitude) and the same forecast type
SamePair(a, b) ==
    /\ ValueOf(a.lat) = ValueOf(b.lat)
    /\ ValueOf(a.lon) = ValueOf(b.lon)
    /\ ValueOf(a.msl) = ValueOf(b.msl)
    /\ a.forecast_link = b.forecast_link

FileOfObject(i) == CacheFilename(locations[i].object)

\* C17, as claimed: two location objects get the same forecast cache file iff
\* they have the same coordinate (latitude, longitude, altitude) and the same
\* forecast type, and a read through one object changes no cache file of an
\* object of another (coordinate, forecast type) pair.
C17_KeySeparation ==
    /\ [](\A i, j \in DOMAIN locations :
            FileOfObject(i) = FileOfObject(j) <=> SamePair(locations[i].args, locations[j].args))
    /\ [][\A j \in DOMAIN locations :
            (/\ fcall'.op = "read"
             /\ locations' = locations
             /\ ~SamePair(locations[fcall'.object].args, locations[j].args)) =>
                cachefiles'[FileOfObject(j)] = cachefiles[FileOfObject(j)]]_vars

\* C20: processes that run Connect.read for one cache file without locking
\* can interleave so that a call returns, or the file is left holding, content
\* that is no complete payload of the provider.  The interleaving is the
\* witness; the formula states what the two races do.  A process that loads
\* the file after finding it fresh, when another has truncated or mixed it
\* meanwhile, returns that content and not a payload; and a process that
\* writes its payload into a file another writer has meanwhile filled with a
\* longer one leaves a mixture of the two.
C20_ForecastCacheRace ==
    [][\A p \in Procs :
          /\ (Moves(p) /\ procs[p].pc = "load" /\ ~IsPayload(disk.blocks)) =>
                /\ procs'[p].outcome = "return"
                /\ procs'[p].value = LoadText(disk.blocks)
                /\ ~IsPayload(procs'[p].value)
          /\ (/\ Moves(p) /\ procs[p].pc = "dump_write" /\ procs'[p].outcome = "return"
              /\ Len(disk.blocks) > Len(procs[p].data)) =>
                /\ ~IsPayload(disk'.blocks)
                /\ SubSeq(disk'.blocks, 1, Len(procs[p].data)) = procs[p].data
                /\ Len(disk'.blocks) = Len(disk.blocks)]_vars

\* a call that found the cache file fresh has returned a text that is no
\* payload of the provider, and no call met a failing request or write
C20_Witness ==
    /\ \E p \in Procs :
          /\ procs[p].pc = "idle"
          /\ procs[p].outcome = "return"
          /\ procs[p].gets = 0
          /\ ~IsPayload(procs[p].value)
    /\ \A q \in Procs : procs[q].outcome # "raise"

(***************************************************************************)
(* Properties of both parts, checked under Spec.                           *)
(***************************************************************************)
\* C11: for both HTTP GETs, a response whose status is not 200 (urlopen raising
\* for it included) makes the call raise to its caller, and the archive file,
\* resp. the forecast cache file, is after the call exactly what it was before;
\* the shelve is not written either.
C11_NonOkIsFatal ==
    [][/\ ((GetZipStep \/ ParseStep) /\ call'.gets = 1 /\ call'.status # 200) =>
            /\ call'.outcome = "raise"
            /\ zipfile' = zipfile
            /\ shelf' = shelf
       /\ (ReadStep /\ fcall'.gets = 1 /\ fcall'.status # 200) =>
            /\ fcall'.outcome = "raise"
            /\ cachefiles' = cachefiles]_vars

\* a read of a stale cache file got a 204 answer: it raised and the stale
\* payload is still in the file
C11_Witness ==
    /\ fcall.op = "read"
    /\ fcall.gets = 1
    /\ fcall.status = 204
    /\ fcall.outcome = "raise"
    /\ fcall.before.exists
    /\ cachefiles[fcall.filename] = fcall.before

====
